---------------------------- MODULE Spec2Model ----------------------------
(***************************************************************************)
(* A model of the truss importer of HW9SH/Truss_stem.py: the line scan of  *)
(* TrussController.ImportFromFile with its five line handlers, the         *)
(* geometry derivation calcLinkVals, the report of TrussView.displayReport *)
(* and the scene of TrussView.buildScene.                                  *)
(*                                                                         *)
(* Text is modelled as text: a line is a string, and lower, strip, find,   *)
(* split and float are computed character by character.                    *)
(*                                                                         *)
(* Python's None is the empty tuple and a value v that may be None is the  *)
(* one-element tuple <<v>>.  An exception is a record naming its type and  *)
(* the method that raised it.                                              *)
(***************************************************************************)
EXTENDS Integers, Sequences, FiniteSets, TLC

None == <<>>

Some(v) == <<v>>

(***************************************************************************)
(* Strings                                                                 *)
(***************************************************************************)
Char(s, i) == SubSeq(s, i, i)

Tail1(s) == SubSeq(s, 2, Len(s))

\* the characters str.strip() and str.split() take for white space
WhiteSpace == {" ", "\t", "\n", "\r", "\f"}

UpperCase == "ABCDEFGHIJKLMNOPQRSTUVWXYZ"

LowerCase == "abcdefghijklmnopqrstuvwxyz"

\* the lower-case letter of each upper-case letter
LowerOf ==
    [c \in {Char(UpperCase, i) : i \in 1..Len(UpperCase)} |->
        Char(LowerCase, CHOOSE k \in 1..Len(UpperCase) : Char(UpperCase, k) = c)]

LowerChar(c) == IF c \in DOMAIN LowerOf THEN LowerOf[c] ELSE c

RECURSIVE StrLower(_)
\* str.lower()
StrLower(s) ==
    IF s = "" THEN "" ELSE LowerChar(Char(s, 1)) \o StrLower(Tail1(s))

RECURSIVE LStripChars(_, _)
LStripChars(s, chars) ==
    IF s # "" /\ Char(s, 1) \in chars THEN LStripChars(Tail1(s), chars) ELSE s

RECURSIVE RStripChars(_, _)
RStripChars(s, chars) ==
    IF s # "" /\ Char(s, Len(s)) \in chars
    THEN RStripChars(SubSeq(s, 1, Len(s) - 1), chars)
    ELSE s

\* str.strip(chars): the leading and the trailing characters of the set go
StrStripChars(s, chars) == RStripChars(LStripChars(s, chars), chars)

\* str.strip()
StrStrip(s) == StrStripChars(s, WhiteSpace)

\* str.find(sub): the lowest 0-based index at which sub occurs, or -1
StrFind(s, sub) ==
    LET hits == {i \in 0..(Len(s) - Len(sub)) : SubSeq(s, i + 1, i + Len(sub)) = sub}
    IN  IF hits = {} THEN -1 ELSE CHOOSE i \in hits : \A k \in hits : i <= k

RECURSIVE SplitFrom(_, _, _)
\* the fields of s at a separator character of seps, cur being the field so far
SplitFrom(s, seps, cur) ==
    IF s = "" THEN <<cur>>
    ELSE IF Char(s, 1) \in seps THEN <<cur>> \o SplitFrom(Tail1(s), seps, "")
    ELSE SplitFrom(Tail1(s), seps, cur \o Char(s, 1))

\* str.split(','): every field between two commas, the empty ones too
StrSplitOn(s, sep) == SplitFrom(s, {sep}, "")

\* str.split(): the maximal runs of characters that are not white space
StrSplit(s) == SelectSeq(SplitFrom(s, WhiteSpace, ""), LAMBDA f : f # "")

\* ' '.join([A, B, C])
Join3(A, B, C) == A \o " " \o B \o " " \o C

Digits == "0123456789"

\* the value of each digit
DigitValue == [c \in {Char(Digits, i) : i \in 1..Len(Digits)} |->
                  (CHOOSE k \in 1..Len(Digits) : Char(Digits, k) = c) - 1]

IsDigit(c) == c \in DOMAIN DigitValue

DigitVal(c) == DigitValue[c]

RECURSIVE AllDigits(_)
AllDigits(s) == s = "" \/ (IsDigit(Char(s, 1)) /\ AllDigits(Tail1(s)))

RECURSIVE DecimalValue(_, _)
DecimalValue(s, acc) ==
    IF s = "" THEN acc ELSE DecimalValue(Tail1(s), 10 * acc + DigitVal(Char(s, 1)))

(***************************************************************************)
(* float(tok) on the tokens the inputs below hold: white space around the  *)
(* token is dropped, an optional sign and one or more decimal digits give  *)
(* the number, and any other token of the inputs (empty, or letters that   *)
(* spell neither inf nor nan) raises ValueError, which is None here.       *)
(***************************************************************************)
Float(tok) ==
    LET t      == StrStrip(tok)
        signed == t # "" /\ Char(t, 1) \in {"+", "-"}
        body   == IF signed THEN Tail1(t) ELSE t
    IN  IF body # "" /\ AllDigits(body)
        THEN Some(IF signed /\ Char(t, 1) = "-"
                  THEN 0 - DecimalValue(body, 0)
                  ELSE DecimalValue(body, 0))
        ELSE None

(***************************************************************************)
(* Numbers.  Coordinates are the integers float() gives, and they are      *)
(* doubles.  The square of a coordinate and a sum of such squares is kept  *)
(* as sq * 4^exp: the inputs below hold coordinates whose squares add up   *)
(* exactly (exp = 0), and the coordinate 2^27, whose square 2^54 has       *)
(* exp = 27.  From 2^54 on the doubles are 4 or more apart, so 2^54 plus   *)
(* an addend below 2 is 2^54 again.  A magnitude is the root of such a     *)
(* sum: Sqrt(n) is the real whose square is n, and the root is exact       *)
(* where the double is (the root of 25 is 5, the root of 2^54 is 2^27).    *)
(* A quotient x / l is kept as its sign and its square num / den * 4^exp   *)
(* in lowest terms, and an angle as acos(c) or 2*pi - acos(c) of such a    *)
(* quotient c; acos(1) is 0.0 and acos(-1) is the double of pi, so         *)
(* 2*pi - acos(1) is the double of 2*pi and 2*pi - acos(-1) that of pi.    *)
(***************************************************************************)
\* 2^27 and its exponent
BigExp == 27

Big == 2 ^ BigExp

Abs(a) == IF a >= 0 THEN a ELSE 0 - a

\* c ** 2: val * 4^exp
Square(c) ==
    IF Abs(c) = Big THEN [val |-> 1, exp |-> BigExp] ELSE [val |-> c * c, exp |-> 0]

\* a + b of two sums of squares, as the doubles add
DoubleAdd(a, b) ==
    CASE a.exp = b.exp -> [val |-> a.val + b.val, exp |-> a.exp]
      [] a.exp > b.exp /\ b.val < 2 -> a
      [] a.exp < b.exp /\ a.val < 2 -> b

\* s ** 0.5: the real whose square is s
Root(s) == [sq |-> s.val, exp |-> s.exp]

Sqrt(n) == Root([val |-> n, exp |-> 0])

\* a >= b for magnitudes
MagGreaterOrEqual(a, b) ==
    IF a.exp = b.exp THEN a.sq >= b.sq
    ELSE IF a.exp > b.exp THEN a.sq > 0
    ELSE b.sq = 0

\* a > b for magnitudes
MagGreater(a, b) ==
    IF a.exp = b.exp THEN a.sq > b.sq
    ELSE IF a.exp > b.exp THEN a.sq > 0
    ELSE b.sq = 0 /\ a.sq > 0

RECURSIVE Gcd(_, _)
Gcd(a, b) == IF b = 0 THEN a ELSE Gcd(b, a % b)

Sign(x) == IF x > 0 THEN 1 ELSE IF x < 0 THEN -1 ELSE 0

\* x / l for a magnitude l > 0
Quotient(x, l) ==
    LET xx == Square(x)
        g  == Gcd(xx.val, l.sq)
    IN  [sgn |-> Sign(x), num |-> xx.val \div g, den |-> l.sq \div g,
         exp |-> IF x = 0 THEN 0 ELSE xx.exp - l.exp]

\* math.acos(c)
Acos(c) == [rev |-> FALSE, cos |-> c]

\* 2.0 * math.pi - math.acos(c)
TwoPiMinusAcos(c) == [rev |-> TRUE, cos |-> c]

\* the number 0 as an angle: acos(1) = 0
ZeroAngle == Acos(Quotient(1, Sqrt(1)))

(***************************************************************************)
(* Position                                                                *)
(***************************************************************************)
Position(x, y, z) == [x |-> x, y |-> y, z |-> z]

\* Position.__sub__
PositionSub(a, b) == Position(a.x - b.x, a.y - b.y, a.z - b.z)

\* Position.mag with the y component left out
MagWithoutY(p) == Root(DoubleAdd(Square(p.x), Square(p.z)))

\* Position.mag
Mag(p) == Root(DoubleAdd(DoubleAdd(Square(p.x), Square(p.y)), Square(p.z)))

\* Position.getAngleRad
GetAngleRad(p) ==
    LET l == Mag(p)
    IN  IF l.sq <= 0 THEN ZeroAngle
        ELSE IF p.y >= 0 THEN Acos(Quotient(p.x, l))
        ELSE TwoPiMinusAcos(Quotient(p.x, l))

(***************************************************************************)
(* Material, Node, Link, TrussModel                                        *)
(***************************************************************************)
\* Material(): every field None
Material == [uts |-> None, ys |-> None, E |-> None, staticFactor |-> None]

\* Node() with its name and the x and y of its position set; z stays 0.0
Node(name, x, y) == [name |-> name, position |-> Position(x, y, 0)]

\* Link() after importLink has set its name and node names
Link(name, node1, node2) ==
    [name |-> name, node1_Name |-> node1, node2_Name |-> node2,
     length |-> None, angleRad |-> None]

\* TrussModel()
TrussModel == [title |-> None, links |-> <<>>, nodes |-> <<>>, material |-> Material]

\* the model as ImportFromFile leaves it before its scan, the nodes kept
ResetKeepingNodes(m) ==
    [title |-> None, links |-> <<>>, nodes |-> m.nodes,
     material |-> [uts |-> None, ys |-> None, E |-> None, staticFactor |-> Some(0)]]

\* the model as ImportFromFile leaves it before its scan
Reset(m) ==
    [title |-> None, links |-> <<>>, nodes |-> <<>>,
     material |-> [uts |-> None, ys |-> None, E |-> None, staticFactor |-> Some(0)]]

\* TrussController.hasNode answering False for every name
HasNodeNever(m, name) == FALSE

\* TrussController.hasNode
HasNode(m, name) == \E i \in 1..Len(m.nodes) : m.nodes[i].name = name

\* TrussController.getNode: the first node of that name (asked only when hasNode)
GetNode(m, name) ==
    LET i == CHOOSE k \in 1..Len(m.nodes) :
                 /\ m.nodes[k].name = name
                 /\ \A j \in 1..(k - 1) : m.nodes[j].name # name
    IN  m.nodes[i]

\* addNode putting the node in front of the nodes
AddNodeInFront(m, node) == [m EXCEPT !.nodes = <<node>> \o @]

\* TrussController.addNode
AddNode(m, node) == [m EXCEPT !.nodes = Append(@, node)]

\* TrussController.addLink
AddLink(m, link) == [m EXCEPT !.links = Append(@, link)]

(***************************************************************************)
(* The line handlers.  Each gives the model after the call, the exception  *)
(* the call raised, or None, and the text the call printed, or None.       *)
(***************************************************************************)
Raise(type, where) == Some([type |-> type, where |-> where])

Returned(m) == [truss |-> m, exc |-> None, out |-> None]

Raised(m, type, where) == [truss |-> m, exc |-> Raise(type, where), out |-> None]

\* the call has printed text, followed by its argument j, and returned
Reported(m, text) == [truss |-> m, exc |-> None, out |-> Some(text)]

\* parts[i], Python's index from 0
Item(parts, i) == parts[i + 1]

\* importTitle keeping a title that is already set
ImportTitleFirstWins(m, line) ==
    LET parts == StrSplit(StrStrip(line))
        slice == SubSeq(parts, 2, IF Len(parts) < 4 THEN Len(parts) ELSE 4)
    IN  IF Len(slice) # 3
        THEN Raised(m, "ValueError", "importTitle")
        ELSE IF m.title # None THEN Returned(m)
        ELSE Returned([m EXCEPT !.title =
                 Some(StrStripChars(Join3(slice[1], slice[2], slice[3]), {"'"}))])

\* TrussController.importTitle
ImportTitle(m, line) ==
    LET parts == StrSplit(StrStrip(line))
        slice == SubSeq(parts, 2, IF Len(parts) < 4 THEN Len(parts) ELSE 4)
    IN  IF Len(slice) # 3
        THEN Raised(m, "ValueError", "importTitle")
        ELSE Returned([m EXCEPT !.title =
                 Some(StrStripChars(Join3(slice[1], slice[2], slice[3]), {"'"}))])

\* float(parts[i].strip(',')): "IndexError", "ValueError" or the number
FloatOfPart(parts, i) ==
    IF Len(parts) <= i THEN "IndexError"
    ELSE IF Float(StrStripChars(Item(parts, i), {","})) = None THEN "ValueError"
    ELSE "ok"

FloatValue(parts, i) == Float(StrStripChars(Item(parts, i), {","}))

\* TrussController.importMaterial: uts, ys and E are assigned one after the
\* other, so the fields before a failing one keep their new values
ImportMaterial(m, line) ==
    LET parts == StrSplit(StrStrip(line))
        m1    == [m  EXCEPT !.material.uts = FloatValue(parts, 1)]
        m2    == [m1 EXCEPT !.material.ys  = FloatValue(parts, 2)]
        m3    == [m2 EXCEPT !.material.E   = FloatValue(parts, 3)]
    IN  IF FloatOfPart(parts, 1) # "ok"
        THEN Raised(m, FloatOfPart(parts, 1), "importMaterial")
        ELSE IF FloatOfPart(parts, 2) # "ok"
        THEN Raised(m1, FloatOfPart(parts, 2), "importMaterial")
        ELSE IF FloatOfPart(parts, 3) # "ok"
        THEN Raised(m2, FloatOfPart(parts, 3), "importMaterial")
        ELSE Returned(m3)

\* TrussController.importSF
ImportSF(m, line) ==
    LET parts == StrSplit(StrStrip(line))
    IN  IF FloatOfPart(parts, 1) # "ok"
        THEN Raised(m, FloatOfPart(parts, 1), "importSF")
        ELSE Returned([m EXCEPT !.material.staticFactor = FloatValue(parts, 1)])

\* the loop of importLink that looks for a link of that name, finding none
LinkNameIsNewAlways(m, name) == TRUE

\* the loop of importLink that looks for a link of that name: run
LinkNameIsNew(m, name) == \A i \in 1..Len(m.links) : m.links[i].name # name

\* importLink's test with a link accepted as soon as one of its nodes is known
MayAddLinkEitherNode(m, name, node1, node2) ==
    (HasNode(m, node1) \/ HasNode(m, node2)) /\ LinkNameIsNew(m, name)

\* importLink's test: hasNode(node1) and hasNode(node2) and run == True
MayAddLink(m, name, node1, node2) ==
    HasNode(m, node1) /\ HasNode(m, node2) /\ LinkNameIsNew(m, name)

\* TrussController.importLink
ImportLink(m, line) ==
    LET parts == StrSplit(StrStrip(line))
    IN  IF Len(parts) < 4
        THEN Raised(m, "IndexError", "importLink")
        ELSE LET name  == StrStripChars(Item(parts, 1), {","})
                 node1 == StrStripChars(Item(parts, 2), {","})
                 node2 == StrStripChars(Item(parts, 3), {","})
             IN  IF MayAddLink(m, name, node1, node2)
                 THEN Returned(AddLink(m, Link(name, node1, node2)))
                 ELSE Returned(m)

\* [p.strip() for p in data[j].strip().split(',')]
NodeParts(line) ==
    LET raw == StrSplitOn(StrStrip(line), ",")
    IN  [i \in 1..Len(raw) |-> StrStrip(raw[i])]

\* importNode moving a node that is already in the model to the line's position
ImportNodeLastWins(m, line) ==
    LET parts == NodeParts(line)
    IN  IF Len(parts) >= 4
        THEN IF Float(Item(parts, 2)) = None \/ Float(Item(parts, 3)) = None
             THEN Raised(m, "ValueError", "importNode")
             ELSE LET N == Node(Item(parts, 1), Float(Item(parts, 2))[1],
                                Float(Item(parts, 3))[1])
                  IN  IF HasNode(m, N.name)
                      THEN Returned([m EXCEPT !.nodes =
                               [i \in 1..Len(m.nodes) |->
                                   IF m.nodes[i].name = N.name THEN N ELSE m.nodes[i]]])
                      ELSE Returned(AddNode(m, N))
        ELSE Reported(m, "Invalid node data at line:")

\* importNode reading its fields without the test of their number
ImportNodeUnguarded(m, line) ==
    LET parts == NodeParts(line)
    IN  IF Len(parts) < 4 THEN Raised(m, "IndexError", "importNode")
        ELSE LET name == Item(parts, 1)
             IN  IF ~HasNode(m, name)
                 THEN IF Float(Item(parts, 2)) = None \/ Float(Item(parts, 3)) = None
                      THEN Raised(m, "ValueError", "importNode")
                      ELSE Returned(AddNode(m, Node(name, Float(Item(parts, 2))[1],
                                                          Float(Item(parts, 3))[1])))
                 ELSE Returned(m)

\* TrussController.importNode
ImportNode(m, line) ==
    LET parts == NodeParts(line)
    IN  IF Len(parts) >= 4
        THEN LET name == Item(parts, 1)
             IN  IF ~HasNode(m, name)
                 THEN IF Float(Item(parts, 2)) = None \/ Float(Item(parts, 3)) = None
                      THEN Raised(m, "ValueError", "importNode")
                      ELSE Returned(AddNode(m, Node(name, Float(Item(parts, 2))[1],
                                                          Float(Item(parts, 3))[1])))
                 ELSE Returned(m)
        ELSE Reported(m, "Invalid node data at line:")

\* the keyword test with 'node' tried before 'link'
LineKindNodeFirst(line) ==
    LET lin == StrStrip(StrLower(line))
    IN  IF StrFind(lin, "#") = 0 THEN "comment"
        ELSE IF StrFind(lin, "title") >= 0 THEN "title"
        ELSE IF StrFind(lin, "node") >= 0 THEN "node"
        ELSE IF StrFind(lin, "link") >= 0 THEN "link"
        ELSE IF StrFind(lin, "material") >= 0 THEN "material"
        ELSE IF StrFind(lin, "static_factor") >= 0 THEN "static_factor"
        ELSE "other"

\* the keyword test without the test for '#'
LineKindNoComment(line) ==
    LET lin == StrStrip(StrLower(line))
    IN  IF StrFind(lin, "title") >= 0 THEN "title"
        ELSE IF StrFind(lin, "link") >= 0 THEN "link"
        ELSE IF StrFind(lin, "node") >= 0 THEN "node"
        ELSE IF StrFind(lin, "material") >= 0 THEN "material"
        ELSE IF StrFind(lin, "static_factor") >= 0 THEN "static_factor"
        ELSE "other"

\* the keyword test of ImportFromFile's loop on lin = line.lower().strip()
LineKind(line) ==
    LET lin == StrStrip(StrLower(line))
    IN  IF StrFind(lin, "#") = 0 THEN "comment"
        ELSE IF StrFind(lin, "title") >= 0 THEN "title"
        ELSE IF StrFind(lin, "link") >= 0 THEN "link"
        ELSE IF StrFind(lin, "node") >= 0 THEN "node"
        ELSE IF StrFind(lin, "material") >= 0 THEN "material"
        ELSE IF StrFind(lin, "static_factor") >= 0 THEN "static_factor"
        ELSE "other"

\* the handler ImportFromFile's loop calls for a line of that kind
Handle(kind, m, line) ==
    CASE kind = "title"         -> ImportTitle(m, line)
      [] kind = "link"          -> ImportLink(m, line)
      [] kind = "node"          -> ImportNode(m, line)
      [] kind = "material"      -> ImportMaterial(m, line)
      [] kind = "static_factor" -> ImportSF(m, line)
      [] OTHER                  -> Returned(m)

\* one pass of ImportFromFile's loop body on a line
ImportLine(m, line) == Handle(LineKind(line), m, line)

(***************************************************************************)
(* Geometry derivation                                                     *)
(***************************************************************************)
\* the body of calcLinkVals' loop for one link
LinkVals(m, l) ==
    IF HasNode(m, l.node1_Name) /\ HasNode(m, l.node2_Name)
    THEN LET r == PositionSub(GetNode(m, l.node2_Name).position,
                              GetNode(m, l.node1_Name).position)
         IN  [l EXCEPT !.length = Some(Mag(r)), !.angleRad = Some(GetAngleRad(r))]
    ELSE l

\* calcLinkVals with a loop that stops before the last link
CalcLinkValsButLast(m) ==
    [m EXCEPT !.links = [i \in 1..Len(m.links) |->
        IF i < Len(m.links) THEN LinkVals(m, m.links[i]) ELSE m.links[i]]]

\* calcLinkVals with a loop that ends at the first link whose nodes are not both there
CalcLinkValsUntilUnresolved(m) ==
    [m EXCEPT !.links = [i \in 1..Len(m.links) |->
        IF \A k \in 1..i : HasNode(m, m.links[k].node1_Name) /\ HasNode(m, m.links[k].node2_Name)
        THEN LinkVals(m, m.links[i])
        ELSE m.links[i]]]

\* TrussController.calcLinkVals
CalcLinkVals(m) ==
    [m EXCEPT !.links = [i \in 1..Len(m.links) |-> LinkVals(m, m.links[i])]]

(***************************************************************************)
(* The view: the report widget, the four longest-link fields and the       *)
(* scene.  A widget nothing has been written to holds None.  The report    *)
(* text is kept as the values it is formatted from: '{:0.2f}'.format(v)    *)
(* raises TypeError for v = None and is a text of v otherwise.             *)
(***************************************************************************)
TrussView ==
    [te_Report |-> None, le_LongLinkName |-> None, le_LongLinkLength |-> None,
     le_LongLinkNode1 |-> None, le_LongLinkNode2 |-> None, scene |-> <<>>]

RECURSIVE ReportLoop(_, _, _, _)
\* the loop of displayReport over links[i..], with longest and the rows so far
ReportLoop(links, i, longest, rows) ==
    IF i > Len(links) THEN [longest |-> longest, rows |-> rows, exc |-> None]
    ELSE LET l == links[i]
         IN  IF longest # None /\ (l.length = None \/ longest[1].length = None)
             THEN [longest |-> longest, rows |-> rows,
                   exc |-> Raise("TypeError", "displayReport")]
             ELSE LET next == IF longest = None THEN Some(l)
                              ELSE IF MagGreater(l.length[1], longest[1].length[1])
                              THEN Some(l)
                              ELSE longest
                  IN  IF l.length = None \/ l.angleRad = None
                      THEN [longest |-> next, rows |-> rows,
                            exc |-> Raise("TypeError", "displayReport")]
                      ELSE ReportLoop(links, i + 1, next,
                               Append(rows, [name |-> l.name, node1 |-> l.node1_Name,
                                             node2 |-> l.node2_Name,
                                             length |-> l.length[1],
                                             angleRad |-> l.angleRad[1]]))

\* TrussView.displayReport: the view after the call and the exception raised
DisplayReport(m, v) ==
    IF \/ m.material.staticFactor = None \/ m.material.uts = None
       \/ m.material.ys = None \/ m.material.E = None
    THEN [view |-> v, exc |-> Raise("TypeError", "displayReport")]
    ELSE LET loop == ReportLoop(m.links, 1, None, <<>>)
             st   == [title |-> m.title, staticFactor |-> m.material.staticFactor[1],
                      uts |-> m.material.uts[1], ys |-> m.material.ys[1],
                      E |-> m.material.E[1], rows |-> loop.rows]
             v1   == [v EXCEPT !.te_Report = Some(st)]
         IN  IF loop.exc # None THEN [view |-> v, exc |-> loop.exc]
             ELSE IF loop.longest = None
             THEN [view |-> v1, exc |-> Raise("AttributeError", "displayReport")]
             ELSE [view |-> [v1 EXCEPT
                                !.le_LongLinkName = Some(loop.longest[1].name),
                                !.le_LongLinkLength = Some(loop.longest[1].length[1]),
                                !.le_LongLinkNode1 = Some(loop.longest[1].node1_Name),
                                !.le_LongLinkNode2 = Some(loop.longest[1].node2_Name)],
                   exc |-> None]

(***************************************************************************)
(* The scene.  A QRect is its four edges; setBottom and setLeft are handed *)
(* a float there, which a binding that converts takes as an integer and a  *)
(* binding that does not refuses with TypeError: strict says which.        *)
(***************************************************************************)
RECURSIVE RectLoop(_, _, _, _)
\* the loop of buildScene over nodes[i..] with the rectangle so far
RectLoop(nodes, i, rect, strict) ==
    IF i > Len(nodes) THEN [rect |-> rect, exc |-> None]
    ELSE LET n  == nodes[i].position
             r1 == IF n.y > rect.top THEN [rect EXCEPT !.top = n.y] ELSE rect
             r2 == IF n.y < r1.bottom THEN [r1 EXCEPT !.bottom = n.y] ELSE r1
             r3 == IF n.x > r2.right THEN [r2 EXCEPT !.right = n.x] ELSE r2
             r4 == IF n.x < r3.left THEN [r3 EXCEPT !.left = n.x] ELSE r3
         IN  IF strict /\ (n.y < r1.bottom \/ n.x < r3.left)
             THEN [rect |-> rect, exc |-> Raise("TypeError", "buildScene")]
             ELSE RectLoop(nodes, i + 1, r4, strict)

\* the integer quotient of C++, rounding towards zero
TruncDiv(a, b) == IF a >= 0 THEN a \div b ELSE 0 - ((0 - a) \div b)


\* TrussView.drawLinks: two fixed lines, whatever the links of the model
DrawLinks(m) ==
    << [kind |-> "line", pen |-> "penLink", x1 |-> -50, y1 |-> -50, x2 |-> -50, y2 |-> 50],
       [kind |-> "line", pen |-> "penLink", x1 |-> -50, y1 |-> -50, x2 |-> 50, y2 |-> -50] >>

RECURSIVE DrawNodes(_, _)
\* TrussView.drawNodes from node i on: a circle of radius 7 and a label
DrawNodes(m, i) ==
    IF i > Len(m.nodes) THEN <<>>
    ELSE LET n == m.nodes[i]
         IN  << [kind |-> "ellipse", x |-> n.position.x - 7, y |-> n.position.y - 7,
                 w |-> 14, h |-> 14],
                [kind |-> "label", str |-> n.name, x |-> n.position.x - 15,
                 y |-> n.position.y + 15] >> \o DrawNodes(m, i + 1)

\* TrussView.buildScene: the view after the call and the exception raised.
\* The grid drawAGrid draws is kept as the arguments of the call.
BuildScene(m, v, strict) ==
    IF m.nodes = <<>>
    THEN [view |-> v, exc |-> Raise("IndexError", "buildScene")]
    ELSE LET p0   == m.nodes[1].position
             rect == [top |-> p0.y, left |-> p0.x, bottom |-> p0.y - 1, right |-> p0.x - 1]
             loop == RectLoop(m.nodes, 1, rect, strict)
             adj  == [left |-> loop.rect.left - 50, top |-> loop.rect.top + 50,
                      right |-> loop.rect.right + 50, bottom |-> loop.rect.bottom - 50]
             grid == [kind |-> "grid", DeltaX |-> 10, DeltaY |-> 10,
                      Height |-> Abs(adj.bottom - adj.top + 1),
                      Width |-> Abs(adj.right - adj.left + 1),
                      CenterX |-> TruncDiv(adj.left + adj.right, 2),
                      CenterY |-> TruncDiv(adj.top + adj.bottom, 2)]
         IN  IF loop.exc # None THEN [view |-> v, exc |-> loop.exc]
             ELSE [view |-> [v EXCEPT !.scene = <<grid>> \o DrawLinks(m) \o DrawNodes(m, 1)],
                   exc |-> None]

(***************************************************************************)
(* The inputs: the files handed to ImportFromFile                          *)
(***************************************************************************)
\* the longest file of the files built from LinePool
MaxLines == 3

\* the calls of ImportFromFile on one controller
MaxImports == 2

LinePool ==
    { "Title 'Truss Design One'\n",
      "title Short",
      "Material 100, 50, 30000\n",
      "material 100, 50",
      "Static_factor 4",
      "node, A, 0, 0",
      "node, B, 3, 4\n",
      "node, A, 1, 1",
      "node, B",
      "node, C, x, 0",
      "link L1, A, B",
      "link L1, B, A",
      "link L2",
      "# node, C, 9, 9" }

\* a whole truss file, with a node and a link given twice and a link that
\* names its second node before that node's line
TrussFile ==
    << "# a truss\n",
       "Title 'Truss Design One'\n",
       "Material 100, 50, 30000\n",
       "Static_factor 4\n",
       "node, A, 0, 0\n",
       "node, B, 3, 4\n",
       "link L3, B, C\n",
       "node, C, -3, 0\n",
       "node, B, 9, 9\n",
       "link L1, A, B\n",
       "link L2, B, C\n",
       "link L1, C, A\n" >>

\* the files that are TrussFile with its last lines left out
TrussFilePrefixes == {SubSeq(TrussFile, 1, k) : k \in 0..Len(TrussFile)}

\* the files of the first call of ImportFromFile on a controller
Inputs == UNION {[1..k -> LinePool] : k \in 0..MaxLines} \cup TrussFilePrefixes

\* the files of the later calls
ReimportInputs ==
    { <<>>,
      <<"node, C, -3, 0">>,
      <<"Title 'Another Truss Design'", "material 7, 8, 9">>,
      <<"node, B, 3, 4\n", "node, A, 0, 0", "link L1, B, A">>,
      <<"static_factor 2", "material 1, 2">>,
      TrussFile }

(***************************************************************************)
(* The controller                                                          *)
(***************************************************************************)
VARIABLES
    truss,   \* TrussController.truss
    view,    \* TrussController.view
    data,    \* the lines of the call of ImportFromFile in progress, or of the last
    Index,   \* ImportFromFile's Index
    pc,      \* where the controller is: idle, scan, report, draw, done, raised
    exc,     \* the exception that left ImportFromFile, or None
    calls,   \* the calls of ImportFromFile so far
    prior,   \* the model as the last call of ImportFromFile found it
    printed  \* what that call has printed: the texts, each with its argument j

vars == <<truss, view, data, Index, pc, exc, calls, prior, printed>>

\* TrussController(): a new model and a new view
Init ==
    /\ truss = TrussModel
    /\ view = TrussView
    /\ data = <<>>
    /\ Index = 0
    /\ pc = "idle"
    /\ exc = None
    /\ calls = 0
    /\ prior = TrussModel
    /\ printed = <<>>

\* ImportFromFile is called with the lines d: the model is reset
StartImport(d) ==
    /\ pc \in {"idle", "done", "raised"}
    /\ calls < MaxImports
    /\ prior' = truss
    /\ truss' = Reset(truss)
    /\ data' = d
    /\ Index' = 0
    /\ pc' = "scan"
    /\ exc' = None
    /\ calls' = calls + 1
    /\ printed' = <<>>
    /\ UNCHANGED view

\* one pass of the loop with a handler that takes the line after its own as well
ScanLineAndNext ==
    /\ pc = "scan"
    /\ Index < Len(data)
    /\ LET r == ImportLine(truss, data[Index + 1])
       IN  /\ truss' = r.truss
           /\ exc' = r.exc
           /\ Index' = IF r.exc = None THEN Index + 2 ELSE Index
           /\ pc' = IF r.exc = None THEN "scan" ELSE "raised"
           /\ printed' = IF r.out = None THEN printed
                         ELSE Append(printed, [text |-> r.out[1], j |-> Index])
    /\ UNCHANGED <<view, data, calls, prior>>

\* one pass of the loop: the line at Index goes to its handler
ScanLine ==
    /\ pc = "scan"
    /\ Index < Len(data)
    /\ LET r == ImportLine(truss, data[Index + 1])
       IN  /\ truss' = r.truss
           /\ exc' = r.exc
           /\ Index' = IF r.exc = None THEN Index + 1 ELSE Index
           /\ pc' = IF r.exc = None THEN "scan" ELSE "raised"
           /\ printed' = IF r.out = None THEN printed
                         ELSE Append(printed, [text |-> r.out[1], j |-> Index])
    /\ UNCHANGED <<view, data, calls, prior>>

\* calcLinkVals runs and the report follows, wherever the scan is
DeriveStepEarly ==
    /\ pc = "scan"
    /\ truss' = CalcLinkVals(truss)
    /\ pc' = "report"
    /\ UNCHANGED <<view, data, Index, exc, calls, prior, printed>>

\* the loop is left and calcLinkVals runs
DeriveStep ==
    /\ pc = "scan"
    /\ Index >= Len(data)
    /\ truss' = CalcLinkVals(truss)
    /\ pc' = "report"
    /\ UNCHANGED <<view, data, Index, exc, calls, prior, printed>>

\* displayReport runs
ReportStep ==
    /\ pc = "report"
    /\ LET r == DisplayReport(truss, view)
       IN  /\ view' = r.view
           /\ exc' = r.exc
           /\ pc' = IF r.exc = None THEN "draw" ELSE "raised"
    /\ UNCHANGED <<truss, data, Index, calls, prior, printed>>

\* drawTruss runs
DrawStep ==
    /\ pc = "draw"
    /\ \E strict \in BOOLEAN :
          LET r == BuildScene(truss, view, strict)
          IN  /\ view' = r.view
              /\ exc' = r.exc
              /\ pc' = IF r.exc = None THEN "done" ELSE "raised"
    /\ UNCHANGED <<truss, data, Index, calls, prior, printed>>

Next ==
    \/ \E d \in (IF calls = 0 THEN Inputs ELSE ReimportInputs) : StartImport(d)
    \/ ScanLine
    \/ DeriveStep
    \/ ReportStep
    \/ DrawStep

Spec == Init /\ [][Next]_vars

(***************************************************************************)
(* What ImportFromFile computes, as a function of the model it is called   *)
(* on and of the lines                                                     *)
(***************************************************************************)
RECURSIVE ScanFrom(_, _, _)
\* the loop of ImportFromFile from line i on, left at the first exception
ScanFrom(m, d, i) ==
    IF i > Len(d) THEN Returned(m)
    ELSE LET r == ImportLine(m, d[i])
         IN  IF r.exc # None THEN r ELSE ScanFrom(r.truss, d, i + 1)

\* the model ImportFromFile(d) leaves on a controller whose model was m
ImportedModel(m, d) ==
    LET s == ScanFrom(Reset(m), d, 1)
    IN  IF s.exc # None THEN s.truss ELSE CalcLinkVals(s.truss)

\* the scan is over: the loop was left, or an exception left ImportFromFile
ScanOver == pc \in {"report", "draw", "done", "raised"}

\* calcLinkVals has run in the call of ImportFromFile in progress, or the last
AfterCalc ==
    \/ pc \in {"report", "draw", "done"}
    \/ pc = "raised" /\ exc[1].where \in {"displayReport", "buildScene"}

\* the lines the scan has handed to a handler so far
Scanned == IF pc = "raised" /\ ~AfterCalc THEN Index + 1 ELSE Index

(***************************************************************************)
(* C1: whatever the controller imported before, once the scan of a call    *)
(* ImportFromFile(L2) is over the model (title, nodes, links, material) is *)
(* the one ImportFromFile(L2) leaves on a newly made controller; nothing   *)
(* of the earlier import survives, and the same lines imported twice give  *)
(* the model they give once.                                               *)
(***************************************************************************)
ReimportIsFreshImport ==
    (calls >= 1 /\ ScanOver) => truss = ImportedModel(TrussModel, data)

\* a second import is over whose predecessor left a title, a link and a node
\* that the second import's model does not have
ReimportDropsStaleWitness ==
    /\ calls = 2
    /\ ScanOver
    /\ prior.title # None /\ truss.title = None
    /\ prior.links # <<>> /\ truss.links = <<>>
    /\ prior.material.uts # None /\ truss.material.uts = None
    /\ \E i \in 1..Len(prior.nodes) : ~HasNode(truss, prior.nodes[i].name)

(***************************************************************************)
(* C2: in every state, during and after every import, no two nodes of the  *)
(* model have the same name.                                               *)
(***************************************************************************)
NodeNamesUnique ==
    \A i, j \in 1..Len(truss.nodes) :
        truss.nodes[i].name = truss.nodes[j].name => i = j

\* a line of that kind with the fields importNode needs
IsNodeLine(line) == LineKind(line) = "node" /\ Len(NodeParts(line)) >= 4

\* the name importNode reads from such a line
NodeLineName(line) == Item(NodeParts(line), 1)

\* two node lines of the same name have been scanned and one node was kept
DuplicateNodeLineWitness ==
    /\ pc = "scan"
    /\ \E i, j \in 1..Index :
          /\ i < j
          /\ IsNodeLine(data[i]) /\ IsNodeLine(data[j])
          /\ NodeLineName(data[i]) = NodeLineName(data[j])
          /\ data[i] # data[j]
    /\ Len(truss.nodes) = 1


(***************************************************************************)
(* What the lines say, read off the lines alone                            *)
(***************************************************************************)
\* the position a node line gives
NodeLinePosition(line) ==
    Position(Float(Item(NodeParts(line), 2))[1], Float(Item(NodeParts(line), 3))[1], 0)

\* the first of the scanned lines that is a node line carrying that name
FirstNodeLine(name) ==
    CHOOSE j \in 1..Scanned :
        /\ IsNodeLine(data[j]) /\ NodeLineName(data[j]) = name
        /\ \A i \in 1..(j - 1) : ~(IsNodeLine(data[i]) /\ NodeLineName(data[i]) = name)

\* the loop is about to hand a node line to importNode
AtNodeLine == pc = "scan" /\ Index < Len(data) /\ IsNodeLine(data[Index + 1])

(***************************************************************************)
(* C3: a node line naming a node that is already in the model is skipped   *)
(* without error and leaves the model unchanged, whatever its other fields *)
(* say; so every node of the model has the position given by the first     *)
(* node line of the input that carried its name.                           *)
(***************************************************************************)
NodesHaveFirstLinePositions ==
    \A i \in 1..Len(truss.nodes) :
        LET n == truss.nodes[i]
        IN  /\ \E j \in 1..Scanned : IsNodeLine(data[j]) /\ NodeLineName(data[j]) = n.name
            /\ n.position = NodeLinePosition(data[FirstNodeLine(n.name)])

FirstNodeLineWins ==
    /\ []NodesHaveFirstLinePositions
    /\ [][ (AtNodeLine /\ HasNode(truss, NodeLineName(data[Index + 1])))
           => (truss' = truss /\ exc' = None /\ pc' = "scan" /\ Index' = Index + 1)
         ]_vars

\* a later node line gave another position, or no number at all, for the
\* name of a node of the model, and the scan went on past it
LaterNodeLineIgnoredWitness ==
    /\ pc = "scan"
    /\ \E i \in 1..Len(truss.nodes) : \E j \in 1..Index :
          /\ IsNodeLine(data[j])
          /\ NodeLineName(data[j]) = truss.nodes[i].name
          /\ j > FirstNodeLine(truss.nodes[i].name)
          /\ data[j] # data[FirstNodeLine(truss.nodes[i].name)]
          /\ truss.nodes[i].position = Position(0, 0, 0)


\* the fields importLink reads: data[j].strip().split()
LinkParts(line) == StrSplit(StrStrip(line))

\* a line of that kind with the fields importLink needs
IsLinkLine(line) == LineKind(line) = "link" /\ Len(LinkParts(line)) >= 4

\* the name and the two node names importLink reads from such a line
LinkLineName(line) == StrStripChars(Item(LinkParts(line), 1), {","})

LinkLineNode1(line) == StrStripChars(Item(LinkParts(line), 2), {","})

LinkLineNode2(line) == StrStripChars(Item(LinkParts(line), 3), {","})

\* a node line carrying that name stands before line j
NodeLineBefore(j, name) ==
    \E i \in 1..(j - 1) : IsNodeLine(data[i]) /\ NodeLineName(data[i]) = name

\* line j is a link line and both nodes it names have a node line before it
LinkLineWithNodesBefore(j) ==
    /\ IsLinkLine(data[j])
    /\ NodeLineBefore(j, LinkLineNode1(data[j]))
    /\ NodeLineBefore(j, LinkLineNode2(data[j]))

\* the loop is about to hand a link line to importLink
AtLinkLine == pc = "scan" /\ Index < Len(data) /\ IsLinkLine(data[Index + 1])

(***************************************************************************)
(* C4: a link line adds its link only if both nodes it names are in the    *)
(* model when the line is scanned; otherwise the link is discarded, and it *)
(* stays out of the model when a line of the missing node comes later:     *)
(* every link of the model comes from a link line that stands after a node *)
(* line of each of its two nodes.                                          *)
(***************************************************************************)
LinkNeedsBothNodesFirst ==
    /\ [](\A k \in 1..Len(truss.links) :
             \E j \in 1..Scanned :
                 /\ LinkLineWithNodesBefore(j)
                 /\ LinkLineName(data[j]) = truss.links[k].name
                 /\ LinkLineNode1(data[j]) = truss.links[k].node1_Name
                 /\ LinkLineNode2(data[j]) = truss.links[k].node2_Name)
    /\ [][ (AtLinkLine /\ ~(/\ HasNode(truss, LinkLineNode1(data[Index + 1]))
                            /\ HasNode(truss, LinkLineNode2(data[Index + 1]))))
           => (truss' = truss /\ exc' = None /\ pc' = "scan" /\ Index' = Index + 1)
         ]_vars

\* the scan is over, a link line named a node whose line came only after it,
\* both its nodes are in the model and no link of its name is
EarlyLinkAbsentWitness ==
    /\ pc \in {"report", "draw", "done"}
    /\ \E j \in 1..Len(data) :
          /\ IsLinkLine(data[j])
          /\ ~LinkLineWithNodesBefore(j)
          /\ HasNode(truss, LinkLineNode1(data[j]))
          /\ HasNode(truss, LinkLineNode2(data[j]))
          /\ \A k \in 1..Len(truss.links) : truss.links[k].name # LinkLineName(data[j])

(***************************************************************************)
(* C5: in every state no two links of the model have the same name; a link *)
(* line whose name is that of a link of the model is skipped, and the link *)
(* kept under a name has the node names of the first link line of that     *)
(* name that was accepted.                                                 *)
(***************************************************************************)
\* the first scanned link line of that name that found both its nodes
FirstAcceptedLinkLine(name) ==
    CHOOSE j \in 1..Scanned :
        /\ LinkLineWithNodesBefore(j) /\ LinkLineName(data[j]) = name
        /\ \A i \in 1..(j - 1) :
              ~(LinkLineWithNodesBefore(i) /\ LinkLineName(data[i]) = name)

LinksKeepFirstAcceptedLine ==
    /\ \A i, k \in 1..Len(truss.links) :
          truss.links[i].name = truss.links[k].name => i = k
    /\ \A k \in 1..Len(truss.links) :
          LET l == truss.links[k]
          IN  /\ \E j \in 1..Scanned :
                    LinkLineWithNodesBefore(j) /\ LinkLineName(data[j]) = l.name
              /\ l.node1_Name = LinkLineNode1(data[FirstAcceptedLinkLine(l.name)])
              /\ l.node2_Name = LinkLineNode2(data[FirstAcceptedLinkLine(l.name)])

FirstLinkLineWins ==
    /\ []LinksKeepFirstAcceptedLine
    /\ [][ (AtLinkLine /\ ~LinkNameIsNew(truss, LinkLineName(data[Index + 1])))
           => (truss' = truss /\ exc' = None /\ pc' = "scan" /\ Index' = Index + 1)
         ]_vars

\* a link line was scanned that found both its nodes and the name of a link
\* of the model with other node names, and the model has one link of that name
DuplicateLinkLineWitness ==
    /\ pc = "scan"
    /\ \E j \in 1..Index : \E k \in 1..Len(truss.links) :
          /\ LinkLineWithNodesBefore(j)
          /\ LinkLineName(data[j]) = truss.links[k].name
          /\ LinkLineNode1(data[j]) # truss.links[k].node1_Name
          /\ j > FirstAcceptedLinkLine(truss.links[k].name)

(***************************************************************************)
(* C6: at every point of the scan both node names of every link of the     *)
(* model are names of nodes of the model, and so once calcLinkVals has run *)
(* every link has its length and its angleRad set.                         *)
(***************************************************************************)
LinksResolveAndAreDerived ==
    /\ \A k \in 1..Len(truss.links) :
          /\ HasNode(truss, truss.links[k].node1_Name)
          /\ HasNode(truss, truss.links[k].node2_Name)
    /\ AfterCalc =>
          \A k \in 1..Len(truss.links) :
              truss.links[k].length # None /\ truss.links[k].angleRad # None

\* calcLinkVals has run on a model of two links
LinksDerivedWitness ==
    /\ AfterCalc
    /\ Len(truss.links) = 2
    /\ \A k \in 1..Len(truss.links) : truss.links[k].length # None


\* the methods ImportFromFile's loop hands a line to
LineHandlers == {"importTitle", "importMaterial", "importSF", "importLink", "importNode"}

(***************************************************************************)
(* C7: a malformed line of any kind (too few fields, or a numeric field    *)
(* that does not parse) is skipped and the scan goes on: no exception      *)
(* leaves ImportFromFile out of a line handler.                            *)
(***************************************************************************)
NoHandlerExceptionEscapes ==
    ~(pc = "raised" /\ exc[1].where \in LineHandlers)

\* uts, ys and E have all been parsed
MaterialSet ==
    truss.material.uts # None /\ truss.material.ys # None /\ truss.material.E # None

(***************************************************************************)
(* C8: for lines that give a model with no links the report step of the    *)
(* import completes without raising.  Stated for the inputs that give the  *)
(* material, so that nothing but the missing longest link can fail.        *)
(***************************************************************************)
EmptyLinksReportCompletes ==
    (AfterCalc /\ truss.links = <<>> /\ MaterialSet)
        => ~(pc = "raised" /\ exc[1].where = "displayReport")

\* no line of the input goes to importMaterial
NoMaterialLine == \A j \in 1..Len(data) : LineKind(data[j]) # "material"

(***************************************************************************)
(* C9: for lines with no material line, so that uts, ys and E are unset    *)
(* after the scan, the import with its report step completes without       *)
(* raising.  Stated for the inputs that give a link, so that nothing but   *)
(* the unset material can fail in the report.                              *)
(***************************************************************************)
NoMaterialReportCompletes ==
    (AfterCalc /\ NoMaterialLine /\ truss.links # <<>>)
        => ~(pc = "raised" /\ exc[1].where = "displayReport")

(***************************************************************************)
(* C10: once calcLinkVals has run, the length of every link is the         *)
(* Euclidean distance of its two nodes: its square is                      *)
(* (x2 - x1)^2 + (y2 - y1)^2; a link from a node at (0,0) to a node at     *)
(* (3,4) has length 5.                                                     *)
(***************************************************************************)
LinkLengthIsDistance ==
    AfterCalc =>
        \A k \in 1..Len(truss.links) :
            LET l  == truss.links[k]
                p1 == GetNode(truss, l.node1_Name).position
                p2 == GetNode(truss, l.node2_Name).position
            IN  /\ l.length # None
                /\ l.length[1] = Sqrt((p2.x - p1.x) * (p2.x - p1.x)
                                       + (p2.y - p1.y) * (p2.y - p1.y))
                /\ (p1 = Position(0, 0, 0) /\ p2 = Position(3, 4, 0))
                       => l.length[1] = Sqrt(5 * 5)

\* calcLinkVals has run on a link from a node at (0,0) to a node at (3,4) and
\* on a link between two nodes that differ in x and in y, neither at the origin
LengthDerivedWitness ==
    /\ AfterCalc
    /\ \E k \in 1..Len(truss.links) :
          /\ GetNode(truss, truss.links[k].node1_Name).position = Position(0, 0, 0)
          /\ GetNode(truss, truss.links[k].node2_Name).position = Position(3, 4, 0)
          /\ truss.links[k].length = Some(Sqrt(25))
    /\ \E k \in 1..Len(truss.links) :
          /\ GetNode(truss, truss.links[k].node1_Name).position = Position(3, 4, 0)
          /\ GetNode(truss, truss.links[k].node2_Name).position = Position(-3, 0, 0)
          /\ truss.links[k].length = Some(Sqrt(52))


(***************************************************************************)
(* Files for the geometry of links: a link from the origin to a node P     *)
(* and back, for P on the axes, in the four quadrants and far out on the   *)
(* x or the y axis, one unit or none off it; and files of three links      *)
(* among fixed nodes, whose lengths are 5, 10, 7, 5, 5 and 2^27.           *)
(***************************************************************************)
UnitTokens == {"-134217728", "-1", "0", "1", "134217728"}

SmallTokens == {"-4", "-3", "0", "3", "4"}

AngleFile(x, y) ==
    << "Material 100, 50, 30000",
       "node, O, 0, 0",
       "node, P, " \o x \o ", " \o y,
       "link L, O, P",
       "link M, P, O" >>

AngleFiles ==
    {AngleFile(x, y) : x \in UnitTokens, y \in UnitTokens}
        \cup {AngleFile(x, y) : x \in SmallTokens, y \in SmallTokens}

EndPairs == {"O, P", "O, Q", "O, R", "O, S", "P, Q", "O, T"}

LengthFile(e1, e2, e3) ==
    << "Material 100, 50, 30000",
       "node, O, 0, 0",
       "node, P, 3, 4",
       "node, Q, 6, 8",
       "node, R, 7, 0",
       "node, S, 4, 3",
       "node, T, 134217728, 0",
       "link L1, " \o e1,
       "link L2, " \o e2,
       "link L3, " \o e3 >>

LengthFiles == {LengthFile(e1, e2, e3) : e1 \in EndPairs, e2 \in EndPairs, e3 \in EndPairs}

GeometryInputs == AngleFiles \cup LengthFiles

NextGeometry ==
    \/ \E d \in (IF calls = 0 THEN GeometryInputs ELSE ReimportInputs) : StartImport(d)
    \/ ScanLine
    \/ DeriveStep
    \/ ReportStep
    \/ DrawStep

SpecGeometry == Init /\ [][NextGeometry]_vars

(***************************************************************************)
(* C11.  getAngleRad returns an angle in [0, 2*pi) counterclockwise from   *)
(* the positive x axis: 0 for a vector of magnitude 0, an angle in         *)
(* [0, pi] when y >= 0 and in (pi, 2*pi) when y < 0, and 0, pi/2, pi and   *)
(* 3*pi/2 for (1,0), (0,1), (-1,0) and (0,-1).  Stated of the angle        *)
(* calcLinkVals gives every link from the displacement of its nodes.       *)
(***************************************************************************)
\* the quotients 1, 0 and -1
QuotientIsOne(c) == c.sgn = 1 /\ c.num = c.den /\ c.exp = 0

QuotientIsZero(c) == c.sgn = 0

QuotientIsMinusOne(c) == c.sgn = -1 /\ c.num = c.den /\ c.exp = 0

\* a < 2*pi: acos(c) <= pi, and 2*pi - acos(c) < 2*pi unless acos(c) = 0
AngleBelowTwoPi(a) == ~a.rev \/ ~QuotientIsOne(a.cos)

\* a > pi: only 2*pi - acos(c) with acos(c) < pi
AngleAbovePi(a) == a.rev /\ ~QuotientIsMinusOne(a.cos)

AngleAsClaimed(a, r) ==
    /\ AngleBelowTwoPi(a)
    /\ (r.x = 0 /\ r.y = 0) => a = ZeroAngle
    /\ r.y >= 0 => ~a.rev
    /\ r.y < 0 => AngleAbovePi(a) /\ AngleBelowTwoPi(a)
    /\ r = Position(1, 0, 0) => a = ZeroAngle
    /\ r = Position(0, 1, 0) => ~a.rev /\ QuotientIsZero(a.cos)
    /\ r = Position(-1, 0, 0) => ~a.rev /\ QuotientIsMinusOne(a.cos)
    /\ r = Position(0, -1, 0) => a.rev /\ QuotientIsZero(a.cos)

LinkDisplacement(l) ==
    PositionSub(GetNode(truss, l.node2_Name).position,
                GetNode(truss, l.node1_Name).position)

LinkAnglesAsClaimed ==
    AfterCalc =>
        \A k \in 1..Len(truss.links) :
            AngleAsClaimed(truss.links[k].angleRad[1], LinkDisplacement(truss.links[k]))


(***************************************************************************)
(* C12.  For a model with at least one link, all with length set, the      *)
(* link displayReport shows as longest is the first link, in model order,  *)
(* whose length is the maximum over all links: a later link replaces the   *)
(* candidate only when strictly longer, so of equal lengths the earlier    *)
(* link is shown, and of lengths 5, 10, 7 the link of length 10.           *)
(***************************************************************************)
\* displayReport has returned for the model as it is
ReportShown ==
    \/ pc \in {"draw", "done"}
    \/ pc = "raised" /\ exc[1].where = "buildScene"

\* a < b for two lengths, as real numbers sqrt(sq) * 2^exp
LengthBelow(a, b) ==
    \/ a.exp = b.exp /\ a.sq < b.sq
    \/ a.exp < b.exp /\ b.sq > 0
    \/ a.exp > b.exp /\ a.sq = 0 /\ b.sq > 0

\* link k is as long as any link and longer than every link before it
FirstOfMaxLength(links, k) ==
    /\ \A j \in 1..Len(links) : ~LengthBelow(links[k].length[1], links[j].length[1])
    /\ \A j \in 1..(k - 1) : LengthBelow(links[j].length[1], links[k].length[1])

ShownAsLongest(l) ==
    /\ view.le_LongLinkName = Some(l.name)
    /\ view.le_LongLinkLength = Some(l.length[1])
    /\ view.le_LongLinkNode1 = Some(l.node1_Name)
    /\ view.le_LongLinkNode2 = Some(l.node2_Name)

LongestIsFirstOfMaxLength ==
    (ReportShown /\ Len(truss.links) >= 1) =>
        \E k \in 1..Len(truss.links) :
            /\ FirstOfMaxLength(truss.links, k)
            /\ ShownAsLongest(truss.links[k])

\* links of lengths 5, 10 and 7 show the second
LongestOfThreeWitness ==
    /\ ReportShown
    /\ Len(truss.links) = 3
    /\ truss.links[1].length = Some(Sqrt(25))
    /\ truss.links[2].length = Some(Sqrt(100))
    /\ truss.links[3].length = Some(Sqrt(49))
    /\ ShownAsLongest(truss.links[2])


(***************************************************************************)
(* Files for the keyword test: two nodes, then up to MaxDispatchLines      *)
(* lines that hold several keywords, keywords in upper case, keywords      *)
(* inside names, a '#' in front, after blanks or further on, or no         *)
(* keyword at all.                                                         *)
(***************************************************************************)
MaxDispatchLines == 2

DispatchPool ==
    { "LINK Lnode, A, B",
      "node, link9, 1, 1",
      "Node, T, 5, 5 # title",
      "# title 'A B C'",
      "  # link L1, A, B",
      "link L1, A, B # first",
      "static_factor 3 material",
      "just text",
      "STATIC_FACTOR 2",
      "Title 'Big Node Truss'",
      "node, C, -3, 0",
      "Material 1, 2, 3\n" }

DispatchInputs ==
    { <<"node, A, 0, 0", "node, B, 3, 4">> \o s :
          s \in UNION {[1..k -> DispatchPool] : k \in 0..MaxDispatchLines} }

NextDispatch ==
    \/ \E d \in (IF calls = 0 THEN DispatchInputs ELSE ReimportInputs) : StartImport(d)
    \/ ScanLine
    \/ DeriveStep
    \/ ReportStep
    \/ DrawStep

SpecDispatch == Init /\ [][NextDispatch]_vars

(***************************************************************************)
(* C13.  Every scanned line goes to at most one handler, that of the       *)
(* first keyword, in the order title, link, node, material,                *)
(* static_factor, that occurs anywhere in the lower-cased line; letter     *)
(* case does not matter, a line with none of the keywords changes          *)
(* nothing, and a line with both 'link' and 'node' is handled as a link    *)
(* line only.  (A line that starts with '#' goes to no handler.)           *)
(***************************************************************************)
\* sub occurs in s
Contains(s, sub) ==
    \E i \in 1..(Len(s) - Len(sub) + 1) : SubSeq(s, i, i + Len(sub) - 1) = sub

Keywords == <<"title", "link", "node", "material", "static_factor">>

\* the first keyword, in that order, the lower-cased line contains, or None
FirstKeyword(line) ==
    LET lin  == StrLower(line)
        here == {k \in 1..Len(Keywords) : Contains(lin, Keywords[k])}
    IN  IF here = {} THEN None
        ELSE Some(Keywords[CHOOSE k \in here : \A j \in here : k <= j])

\* the first character of the line that is not white space is '#'
StartsWithHash(line) == StrStrip(line) # "" /\ Char(StrStrip(line), 1) = "#"

\* the line the scan is about to read
AtLine == pc = "scan" /\ Index < Len(data)

\* what the handler of keyword k does with the line
HandlerOf(k, m, line) ==
    CASE k = "title"         -> ImportTitle(m, line)
      [] k = "link"          -> ImportLink(m, line)
      [] k = "node"          -> ImportNode(m, line)
      [] k = "material"      -> ImportMaterial(m, line)
      [] k = "static_factor" -> ImportSF(m, line)

\* the step has done what that one handler does, and nothing else
OnlyHandlerRan(k, line) ==
    /\ truss' = HandlerOf(k, truss, line).truss
    /\ exc' = HandlerOf(k, truss, line).exc

NoHandlerRan == truss' = truss /\ exc' = None

FirstKeywordChoosesHandler ==
    [][ AtLine =>
          LET line == data[Index + 1]
              kw   == FirstKeyword(line)
          IN  /\ NoHandlerRan \/ (kw # None /\ OnlyHandlerRan(kw[1], line))
              /\ kw = None => NoHandlerRan
              /\ (kw # None /\ ~StartsWithHash(line)) => OnlyHandlerRan(kw[1], line)
      ]_vars

\* a line in upper case with 'link' and 'node' has added a link and no node
LinkBeforeNodeWitness ==
    /\ pc = "scan" /\ Index = 3
    /\ data[3] = "LINK Lnode, A, B"
    /\ Len(truss.links) = 1 /\ truss.links[1].name = "Lnode"
    /\ Len(truss.nodes) = 2


(***************************************************************************)
(* C14.  As claimed: a line that contains '#', wherever in the line, is    *)
(* skipped and leaves title, nodes, links and material as they were,       *)
(* whatever keywords it holds.                                             *)
(***************************************************************************)
HashAnywhereSkipsLine ==
    [][ (AtLine /\ Contains(data[Index + 1], "#")) => truss' = truss ]_vars

(***************************************************************************)
(* C14, amended.  A line whose first character after leading white space   *)
(* is '#' is skipped: it leaves title, nodes, links and material as they   *)
(* were and raises nothing, whatever keywords it holds, and the scan goes  *)
(* on with the next line.                                                  *)
(***************************************************************************)
LeadingHashSkipsLine ==
    [][ (AtLine /\ StartsWithHash(data[Index + 1]))
          => (truss' = truss /\ exc' = None /\ pc' = "scan" /\ Index' = Index + 1)
      ]_vars

\* two lines with '#' in front and a keyword further on have been scanned
LeadingHashSkippedWitness ==
    /\ pc = "scan" /\ Index = 4
    /\ data[3] = "# title 'A B C'"
    /\ data[4] = "  # link L1, A, B"
    /\ truss.title = None
    /\ truss.links = <<>>
    /\ Len(truss.nodes) = 2


(***************************************************************************)
(* C15.  A node line with fewer than 4 comma-separated fields makes        *)
(* importNode report an invalid line: the model stays as it was, nothing   *)
(* is raised and the scan goes on with the next line, so the valid lines   *)
(* after it are still imported.                                            *)
(***************************************************************************)
\* a line that goes to importNode without the 4 fields it asks for
IsShortNodeLine(line) == LineKind(line) = "node" /\ Len(NodeParts(line)) < 4

InvalidNodeReport(j) == [text |-> "Invalid node data at line:", j |-> j]

ShortNodeLineIsReported ==
    [][ (AtLine /\ IsShortNodeLine(data[Index + 1]))
          => /\ printed' = Append(printed, InvalidNodeReport(Index))
             /\ truss' = truss
             /\ exc' = None
             /\ pc' = "scan"
             /\ Index' = Index + 1
      ]_vars

\* a short node line was reported and the node lines after it were imported
LinesAfterShortNodeLineWitness ==
    /\ pc = "report"
    /\ data = <<"node, B", "node, A, 0, 0", "node, B, 3, 4\n">>
    /\ printed = <<InvalidNodeReport(0)>>
    /\ Len(truss.nodes) = 2
    /\ truss.nodes[2].name = "B"


(***************************************************************************)
(* C16.  In every import the steps come in a fixed order: lengths and      *)
(* angles are derived only when the last line has been scanned, the        *)
(* report is made only after the derivation and the scene only after the   *)
(* report, so neither is made from a model whose scan or derivation is     *)
(* not complete.                                                           *)
(***************************************************************************)
AllLinesScanned == Index = Len(data)

AllLinksDerived ==
    \A k \in 1..Len(truss.links) :
        truss.links[k].length # None /\ truss.links[k].angleRad # None

\* the step gives some link a length or an angle
DerivesSomeLink ==
    \E k \in 1..Len(truss.links') :
        /\ truss.links'[k].length # None \/ truss.links'[k].angleRad # None
        /\ \/ k > Len(truss.links)
           \/ truss.links[k].length # truss.links'[k].length
           \/ truss.links[k].angleRad # truss.links'[k].angleRad

\* the step writes the report or a field of the longest link
WritesReport ==
    \/ view'.te_Report # view.te_Report
    \/ view'.le_LongLinkName # view.le_LongLinkName
    \/ view'.le_LongLinkLength # view.le_LongLinkLength
    \/ view'.le_LongLinkNode1 # view.le_LongLinkNode1
    \/ view'.le_LongLinkNode2 # view.le_LongLinkNode2

DrawsScene == view'.scene # view.scene

\* the report on show is that of the model as it is
ReportIsOfModel ==
    /\ view.te_Report # None
    /\ view.te_Report[1].title = truss.title
    /\ Len(view.te_Report[1].rows) = Len(truss.links)
    /\ \A k \in 1..Len(truss.links) :
          /\ view.te_Report[1].rows[k].name = truss.links[k].name
          /\ Some(view.te_Report[1].rows[k].length) = truss.links[k].length

StepsKeepOrder ==
    /\ [](pc \in {"report", "draw", "done"} => (AllLinesScanned /\ AllLinksDerived))
    /\ [](pc \in {"draw", "done"} => ReportIsOfModel)
    /\ [][ /\ DerivesSomeLink => (pc = "scan" /\ AllLinesScanned /\ truss'.nodes = truss.nodes)
           /\ pc' = "report" => (pc = "scan" /\ AllLinesScanned)
           /\ WritesReport => (pc = "report" /\ AllLinesScanned /\ AllLinksDerived /\ truss' = truss)
           /\ pc' = "draw" => (pc = "report" /\ truss' = truss)
           /\ DrawsScene => (pc = "draw" /\ ReportIsOfModel /\ truss' = truss)
           /\ pc' = "done" => (pc = "draw" /\ truss' = truss)
       ]_vars

\* a second import has scanned, derived, reported and drawn the whole truss file
AllStepsDoneWitness ==
    /\ pc = "done"
    /\ calls = 2
    /\ data = TrussFile
    /\ Len(truss.links) = 2
    /\ ReportIsOfModel
    /\ Len(view.scene) > 1


(***************************************************************************)
(* C17.  After an import the scene holds exactly one line in the link pen  *)
(* for each link of the model, between the positions of the link's two     *)
(* nodes, so there are as many link lines as links.                        *)
(***************************************************************************)
IsLinkLineItem(item) == item.kind = "line"

SceneLinkLines == SelectSeq(view.scene, IsLinkLineItem)

\* the line runs from the position of the link's first node to that of its second
LineJoinsNodesOf(item, l) ==
    LET p1 == GetNode(truss, l.node1_Name).position
        p2 == GetNode(truss, l.node2_Name).position
    IN  item.x1 = p1.x /\ item.y1 = p1.y /\ item.x2 = p2.x /\ item.y2 = p2.y

SceneHasOneLinePerLink ==
    pc = "done" =>
        /\ Len(SceneLinkLines) = Len(truss.links)
        /\ \A k \in 1..Len(truss.links) : LineJoinsNodesOf(SceneLinkLines[k], truss.links[k])


(***************************************************************************)
(* Direct calls.  ImportFromFile never leaves a link without its nodes in  *)
(* the model, but addNode and addLink append whatever they are handed.     *)
(* Here the methods of the controller are called one by one, in any        *)
(* order, on a controller that holds at most MaxDirectNodes nodes and      *)
(* MaxDirectLinks links; pc names the call that returned last.  Node C is  *)
(* never added, so links L2 and L3 do not resolve.                         *)
(***************************************************************************)
MaxDirectNodes == 2

MaxDirectLinks == 2

DirectNodes == {Node("A", 0, 0), Node("B", 3, 4)}

DirectLinks == {Link("L1", "A", "B"), Link("L2", "B", "C"), Link("L3", "C", "A")}

\* controller.addNode(node)
CallAddNode(node) ==
    /\ Len(truss.nodes) < MaxDirectNodes
    /\ truss' = AddNode(truss, node)
    /\ pc' = "addNode"
    /\ exc' = None
    /\ UNCHANGED <<view, data, Index, calls, prior, printed>>

\* controller.addLink(link)
CallAddLink(link) ==
    /\ Len(truss.links) < MaxDirectLinks
    /\ truss' = AddLink(truss, link)
    /\ pc' = "addLink"
    /\ exc' = None
    /\ UNCHANGED <<view, data, Index, calls, prior, printed>>

\* controller.importMaterial(['Material 100, 50, 30000'], 0)
CallImportMaterial ==
    /\ truss' = ImportMaterial(truss, "Material 100, 50, 30000").truss
    /\ pc' = "importMaterial"
    /\ exc' = None
    /\ UNCHANGED <<view, data, Index, calls, prior, printed>>

\* controller.importSF(['Static_factor 4'], 0)
CallImportSF ==
    /\ truss' = ImportSF(truss, "Static_factor 4").truss
    /\ pc' = "importSF"
    /\ exc' = None
    /\ UNCHANGED <<view, data, Index, calls, prior, printed>>

\* controller.calcLinkVals()
CallCalcLinkVals ==
    /\ truss' = CalcLinkVals(truss)
    /\ pc' = "calcLinkVals"
    /\ exc' = None
    /\ UNCHANGED <<view, data, Index, calls, prior, printed>>

\* controller.displayReport()
CallDisplayReport ==
    /\ LET r == DisplayReport(truss, view)
       IN  /\ view' = r.view
           /\ exc' = r.exc
           /\ pc' = IF r.exc = None THEN "displayReport" ELSE "raised"
    /\ UNCHANGED <<truss, data, Index, calls, prior, printed>>

NextDirect ==
    \/ \E node \in DirectNodes : CallAddNode(node)
    \/ \E link \in DirectLinks : CallAddLink(link)
    \/ CallImportMaterial
    \/ CallImportSF
    \/ CallCalcLinkVals
    \/ CallDisplayReport

SpecDirect == Init /\ [][NextDirect]_vars

(***************************************************************************)
(* C18.  For a model with a link whose node1_Name or node2_Name names no   *)
(* node, calcLinkVals raises nothing, leaves the length and the angleRad   *)
(* of that link unset, and still derives every other link whose two nodes  *)
(* are there.                                                              *)
(***************************************************************************)
Resolves(l) == HasNode(truss, l.node1_Name) /\ HasNode(truss, l.node2_Name)

UnresolvedLinkStaysUnset ==
    pc = "calcLinkVals" =>
        /\ exc = None
        /\ \A k \in 1..Len(truss.links) :
              LET l == truss.links[k]
              IN  IF Resolves(l)
                  THEN /\ l.length = Some(Mag(LinkDisplacement(l)))
                       /\ l.angleRad = Some(GetAngleRad(LinkDisplacement(l)))
                  ELSE l.length = None /\ l.angleRad = None

\* calcLinkVals has met a link without its node C and derived the link after it
UnresolvedThenDerivedWitness ==
    /\ pc = "calcLinkVals"
    /\ Len(truss.links) = 2
    /\ truss.links[1].name = "L2" /\ ~Resolves(truss.links[1])
    /\ truss.links[1].length = None
    /\ truss.links[2].name = "L1"
    /\ truss.links[2].length = Some(Sqrt(25))


(***************************************************************************)
(* C19.  displayReport on a model in which some link has its length and    *)
(* angle unset completes without raising, and never shows a link with      *)
(* unset length as the longest.  Stated for models whose material is set,  *)
(* so that nothing but the links can make the report fail.                 *)
(***************************************************************************)
SomeLinkUnset == \E k \in 1..Len(truss.links) : truss.links[k].length = None

\* the last call of displayReport has raised
ReportRaised == pc = "raised" /\ exc[1].where = "displayReport"

ReportCompletesWithUnsetLink ==
    (MaterialSet /\ truss.material.staticFactor # None /\ SomeLinkUnset) => ~ReportRaised


(***************************************************************************)
(* C20.  Each kind of line changes only its own part of the model: a       *)
(* title line leaves nodes, links and material as they were; a material    *)
(* or static_factor line leaves title, nodes and links; a node line        *)
(* leaves title, links, material and every node already stored, and        *)
(* appends at most one node at the end; a link line leaves title, nodes,   *)
(* material and every link already stored, and appends at most one link    *)
(* at the end.                                                             *)
(***************************************************************************)
\* new is old, or old with one element appended
AtMostOneAppended(old, new) ==
    /\ Len(new) \in {Len(old), Len(old) + 1}
    /\ SubSeq(new, 1, Len(old)) = old

LineChangesOnlyItsPart ==
    [][ AtLine =>
          LET kind == LineKind(data[Index + 1])
          IN  /\ kind = "title" =>
                    /\ truss'.nodes = truss.nodes
                    /\ truss'.links = truss.links
                    /\ truss'.material = truss.material
              /\ kind \in {"material", "static_factor"} =>
                    /\ truss'.title = truss.title
                    /\ truss'.nodes = truss.nodes
                    /\ truss'.links = truss.links
              /\ kind = "node" =>
                    /\ truss'.title = truss.title
                    /\ truss'.links = truss.links
                    /\ truss'.material = truss.material
                    /\ AtMostOneAppended(truss.nodes, truss'.nodes)
              /\ kind = "link" =>
                    /\ truss'.title = truss.title
                    /\ truss'.nodes = truss.nodes
                    /\ truss'.material = truss.material
                    /\ AtMostOneAppended(truss.links, truss'.links)
      ]_vars

\* lines of every kind have been scanned and each has left its mark
EveryKindScannedWitness ==
    /\ pc = "scan" /\ Index = Len(data)
    /\ data = TrussFile
    /\ truss.title = Some("Truss Design One")
    /\ MaterialSet /\ truss.material.staticFactor = Some(4)
    /\ Len(truss.nodes) = 3
    /\ Len(truss.links) = 2


(***************************************************************************)
(* Files of settings: up to MaxSettingLines lines, each a well-formed      *)
(* title, material or static_factor line or a comment, with two lines of   *)
(* each kind that give different values.                                   *)
(***************************************************************************)
MaxSettingLines == 3

SettingPool ==
    { "Title 'Truss Design One'\n",
      "title 'Another Truss Design'",
      "Material 100, 50, 30000\n",
      "material 7, 8, 9",
      "Static_factor 4",
      "static_factor 2\n",
      "# Title 'Not This One'" }

SettingInputs == UNION {[1..k -> SettingPool] : k \in 0..MaxSettingLines}

NextSettings ==
    \/ \E d \in (IF calls = 0 THEN SettingInputs ELSE ReimportInputs) : StartImport(d)
    \/ ScanLine
    \/ DeriveStep
    \/ ReportStep
    \/ DrawStep

SpecSettings == Init /\ [][NextSettings]_vars

(***************************************************************************)
(* C21.  Title, material values and static factor follow last-wins: when   *)
(* the input holds several well-formed title, material or static_factor    *)
(* lines, the value stored after the import is that of the last such line  *)
(* in input order.  Stated of the lines scanned so far at every point of   *)
(* the scan, against the values the lines of SettingPool spell out.        *)
(***************************************************************************)
\* the part of the model a line of SettingPool sets
PartOfLine(line) ==
    CASE line \in {"Title 'Truss Design One'\n", "title 'Another Truss Design'"} -> "title"
      [] line \in {"Material 100, 50, 30000\n", "material 7, 8, 9"} -> "material"
      [] line \in {"Static_factor 4", "static_factor 2\n"} -> "static_factor"
      [] OTHER -> "none"

\* the title a title line of SettingPool gives
TitleOfLine(line) ==
    IF line = "Title 'Truss Design One'\n" THEN "Truss Design One" ELSE "Another Truss Design"

\* uts, ys and E as a material line of SettingPool gives them
MaterialOfLine(line) ==
    IF line = "Material 100, 50, 30000\n"
    THEN [uts |-> Some(100), ys |-> Some(50), E |-> Some(30000)]
    ELSE [uts |-> Some(7), ys |-> Some(8), E |-> Some(9)]

\* the static factor a static_factor line of SettingPool gives
FactorOfLine(line) == IF line = "Static_factor 4" THEN 4 ELSE 2

\* the index of the last of the first n lines that sets that part, or 0
LastLineOf(part, n) ==
    LET here == {k \in 1..n : PartOfLine(data[k]) = part}
    IN  IF here = {} THEN 0 ELSE CHOOSE k \in here : \A j \in here : j <= k

\* the file in hand is made of lines of SettingPool
SettingsFile == \A k \in 1..Len(data) : data[k] \in SettingPool

LastSettingLineWins ==
    (SettingsFile /\ pc # "idle") =>
        LET t == LastLineOf("title", Index)
            m == LastLineOf("material", Index)
            f == LastLineOf("static_factor", Index)
        IN  /\ truss.title = IF t = 0 THEN None ELSE Some(TitleOfLine(data[t]))
            /\ truss.material.uts = IF m = 0 THEN None ELSE MaterialOfLine(data[m]).uts
            /\ truss.material.ys = IF m = 0 THEN None ELSE MaterialOfLine(data[m]).ys
            /\ truss.material.E = IF m = 0 THEN None ELSE MaterialOfLine(data[m]).E
            /\ truss.material.staticFactor = IF f = 0 THEN Some(0) ELSE Some(FactorOfLine(data[f]))

\* two title lines and a material line between them have been scanned
SecondTitleStoredWitness ==
    /\ pc = "scan" /\ Index = 3
    /\ data = <<"Title 'Truss Design One'\n", "material 7, 8, 9", "title 'Another Truss Design'">>
    /\ truss.title = Some("Another Truss Design")
    /\ truss.material.uts = Some(7)


(***************************************************************************)
(* Files of well-formed lines: up to MaxScanLines lines, each a title,     *)
(* material, static_factor, node or link line with all its fields, or a    *)
(* comment.  The loop of ImportFromFile and the call of calcLinkVals       *)
(* after it are steps of one sequential call, so a step that can be taken  *)
(* is taken: weak fairness of ScanLine and of DeriveStep.  ScanLine        *)
(* always changes Index or pc, so it is enabled exactly when its guard     *)
(* holds, and its weak fairness is written with that guard.                *)
(***************************************************************************)
MaxScanLines == 3

ScanPool ==
    { "# a truss\n",
      "Title 'Truss Design One'\n",
      "Material 100, 50, 30000\n",
      "Static_factor 4\n",
      "node, A, 0, 0\n",
      "node, B, 3, 4\n",
      "link L1, A, B\n",
      "link L3, B, C\n" }

ScanInputs == UNION {[1..k -> ScanPool] : k \in 0..MaxScanLines}

NextScan ==
    \/ \E d \in (IF calls = 0 THEN ScanInputs ELSE ReimportInputs) : StartImport(d)
    \/ ScanLine
    \/ DeriveStep
    \/ ReportStep
    \/ DrawStep

\* ENABLED <<ScanLine>>_vars
ScanLineEnabled == pc = "scan" /\ Index < Len(data)

\* WF_vars(ScanLine)
ScanLineFair == []<>(~ScanLineEnabled) \/ []<><<ScanLine>>_vars

SpecScan == Init /\ [][NextScan]_vars /\ ScanLineFair /\ WF_vars(DeriveStep)

(***************************************************************************)
(* C22.  For every finite sequence of well-formed lines the scan ends,     *)
(* having visited each line once in input order: each pass of the loop     *)
(* raises the index by exactly one and leaves the lines as they are, no    *)
(* handler takes or skips further lines, and the loop is left when the     *)
(* index has reached the number of lines, and only then.                   *)
(***************************************************************************)
\* the file in hand is made of well-formed lines
WellFormedFile ==
    \A k \in 1..Len(data) :
        data[k] \in ScanPool \cup {TrussFile[i] : i \in 1..Len(TrussFile)}

\* the scan of such a file is under way
Scanning == pc = "scan" /\ WellFormedFile

\* the scan is over: every line has been visited and calcLinkVals has run
ScanEnded == pc = "report" /\ Index = Len(data)

ScanVisitsEachLineOnceAndEnds ==
    /\ [][ (Scanning /\ Index < Len(data))
             => (Index' = Index + 1 /\ data' = data /\ pc' = "scan") ]_vars
    /\ [][ (Scanning /\ pc' # "scan")
             => (Index = Len(data) /\ pc' = "report" /\ Index' = Index) ]_vars
    /\ [](Scanning => Index <= Len(data))
    /\ (Scanning ~> ScanEnded)

\* the scan of three well-formed lines has ended with the index at 3
ScanOfThreeLinesEndedWitness ==
    /\ ScanEnded
    /\ calls = 1
    /\ data = <<"node, A, 0, 0\n", "node, B, 3, 4\n", "link L1, A, B\n">>
    /\ Index = 3
    /\ Len(truss.links) = 1

=============================================================================
